---- MODULE Spec2Model ----
(***************************************************************************)
(* Subscription lifecycle and payment verification of the backend:         *)
(* the subscriptions and payments collections, the service functions that  *)
(* read and write them, and the route handlers that call the services.     *)
(* Time is counted in days.                                                *)
(***************************************************************************)
EXTENDS Integers, Sequences, FiniteSets, TLC

\* ------------------------------------------------------------------ bounds
MaxTime == 30
MaxSubs == 2
MaxOrders == 2
MaxEnd == 60
MaxMonths == 12

\* ------------------------------------------------------- program constants
DaysPerMonth == 30
PaymentMonths == 1
max_retries == 3
base_delay == 1
backoff == 2

\* ------------------------------------------------------------ input sets
UserIds == {"u1", "u2"}
TickDays == {30}
MonthChoices == {0, 1}
\* months: int of the request schemas, which set no lower limit
SchemaMonths == {-1, 0, 1}
OrderIds == 1..MaxOrders
Unset == "<unset>"
NoUser == "<nobody>"
NoOrder == 0

VARIABLES now, users, subs, nextSubId, payments, nextOrder, resp, procs, renewCalls,
          call

vars == <<now, users, subs, nextSubId, payments, nextOrder, resp, procs, renewCalls,
          call>>

\* ----------------------------------------------------------- sequences
Range(s) == {s[i] : i \in 1..Len(s)}

\* update_many / update_one: apply f to every element of s that satisfies match
UpdateWhere(s, match(_), f(_)) ==
    [i \in 1..Len(s) |-> IF match(s[i]) THEN f(s[i]) ELSE s[i]]

\* ------------------------------------------------------- Time/Date policy
calculate_end_date_31(start_date, months) == start_date + (months * 31)

calculate_end_date(start_date, months) == start_date + (months * DaysPerMonth)

check_subscription_expiry_inclusive(subscription, t) ==
    IF subscription.status = "cancelled" THEN FALSE
    ELSE t >= subscription.end_date

check_subscription_expiry(subscription, t) ==
    IF subscription.status = "cancelled" THEN FALSE
    ELSE t > subscription.end_date

is_subscription_active_stale(subscription, t) == subscription.status = "active"

is_subscription_active(subscription, t) ==
    IF subscription.status # "active" THEN FALSE
    ELSE ~check_subscription_expiry(subscription, t)

\* ------------------------------------------------------ subscription store
\* the document create_subscription inserts
NewSubscription(id, user_id, months, t) ==
    [id |-> id, user_id |-> user_id, status |-> "active",
     start_date |-> t, end_date |-> calculate_end_date(t, months),
     created_at |-> t, updated_at |-> t, cancelled_at |-> <<>>]

create_subscription(S, id, user_id, months, t) ==
    Append(S, NewSubscription(id, user_id, months, t))

\* rows matched by {"user_id": u, "status": {"$in": ["active", "expired"]}}
CurrentRows(S, user_id) ==
    {r \in Range(S) : r.user_id = user_id /\ r.status \in {"active", "expired"}}

\* rows matched by {"user_id": u, "status": "active"}
ActiveRows(S, user_id) ==
    {r \in Range(S) : r.user_id = user_id /\ r.status = "active"}

\* find_one(..., sort=[("created_at", -1)]): the possible results, as a set
\* of 0- or 1-element sequences (<<>> is None); rows with equal created_at
\* may come back in either order
get_user_subscription_unsorted(S, user_id) ==
    LET c == CurrentRows(S, user_id)
    IN  IF c = {} THEN {<<>>} ELSE {<<r>> : r \in c}

get_user_subscription(S, user_id) ==
    LET c == CurrentRows(S, user_id)
    IN  IF c = {} THEN {<<>>}
        ELSE {<<r>> : r \in {x \in c : \A y \in c : y.created_at <= x.created_at}}

SetCancelled(r, t) ==
    [r EXCEPT !.status = "cancelled", !.cancelled_at = <<t>>, !.updated_at = t]

\* the update_many of renew_subscription / activate_without_payment
CancelCurrentEveryone(S, user_id, t) ==
    UpdateWhere(S, LAMBDA r : r.status \in {"active", "expired"},
                   LAMBDA r : SetCancelled(r, t))

CancelCurrentActiveOnly(S, user_id, t) ==
    UpdateWhere(S, LAMBDA r : r.user_id = user_id /\ r.status = "active",
                   LAMBDA r : SetCancelled(r, t))

CancelCurrent(S, user_id, t) ==
    UpdateWhere(S, LAMBDA r : r.user_id = user_id /\ r.status \in {"active", "expired"},
                   LAMBDA r : SetCancelled(r, t))

renew_subscription_carry(S, id, user_id, months, t) ==
    LET left == {r.end_date : r \in {x \in ActiveRows(S, user_id) : x.end_date > t}}
        from == IF left = {} THEN t ELSE CHOOSE e \in left : \A f \in left : f <= e
    IN  Append(CancelCurrent(S, user_id, t),
               [NewSubscription(id, user_id, months, t)
                   EXCEPT !.end_date = calculate_end_date(from, months)])

renew_subscription(S, id, user_id, months, t) ==
    create_subscription(CancelCurrent(S, user_id, t), id, user_id, months, t)

activate_active_only(S, id, user_id, months, t) ==
    create_subscription(CancelCurrentActiveOnly(S, user_id, t), id, user_id, months, t)

activate_without_payment(S, id, user_id, months, t) ==
    create_subscription(CancelCurrent(S, user_id, t), id, user_id, months, t)

\* delete_many({"user_id": u}) of delete_user
delete_subscriptions_all(S, user_id) == <<>>

delete_subscriptions(S, user_id) == SelectSeq(S, LAMBDA r : r.user_id # user_id)

\* the update_many of cancel_subscription
cancel_subscription_current(S, user_id, t) ==
    UpdateWhere(S, LAMBDA r : r.user_id = user_id /\ r.status \in {"active", "expired"},
                   LAMBDA r : SetCancelled(r, t))

cancel_subscription(S, user_id, t) ==
    UpdateWhere(S, LAMBDA r : r.user_id = user_id /\ r.status = "active",
                   LAMBDA r : SetCancelled(r, t))

\* rows the find_one of extend_subscription may return
ExtendCandidatesCurrent(S, user_id) == CurrentRows(S, user_id)

ExtendCandidates(S, user_id) == ActiveRows(S, user_id)

\* the update_one of extend_subscription on the row found
ExtendFromNow(S, row, months, t) ==
    UpdateWhere(S, LAMBDA r : r.id = row.id,
                   LAMBDA r : [r EXCEPT !.end_date = calculate_end_date(t, months),
                                        !.updated_at = t])

ExtendRow(S, row, months, t) ==
    UpdateWhere(S, LAMBDA r : r.id = row.id,
                   LAMBDA r : [r EXCEPT !.end_date = calculate_end_date(r.end_date, months),
                                        !.updated_at = t])

\* the update_one of verify_user on the row found
ExpireUserRows(S, row, t) ==
    UpdateWhere(S, LAMBDA r : r.user_id = row.user_id,
                   LAMBDA r : [r EXCEPT !.status = "expired", !.updated_at = t])

ExpireRow(S, row, t) ==
    UpdateWhere(S, LAMBDA r : r.id = row.id,
                   LAMBDA r : [r EXCEPT !.status = "expired", !.updated_at = t])

\* ---------------------------------------------------------- user directory
Email(u) == IF u = "u1" THEN "u1@example.com" ELSE "u2@example.com"
Emails == {Email(u) : u \in UserIds} \cup {"nobody@example.com"}
Passwords == {"pw-u1", "pw-u2", "wrong"}
get_password_hash(password) == <<"hash", password>>
verify_password(password, password_hash) == get_password_hash(password) = password_hash
UserDoc(u) ==
    [id |-> u, email |-> Email(u),
     password_hash |-> get_password_hash(IF u = "u1" THEN "pw-u1" ELSE "pw-u2")]

\* ---------------------------------------------------------- gateway client
\* the payment id the gateway issues for an order; NoPayId is a document or
\* payload without the field, EmptyPayId the "" the webhook defaults to
PayIdOf(order_id) == <<"pay", order_id>>
NoPayId == <<>>
EmptyPayId == <<"">>

\* HMAC signatures: a signature is valid exactly for the data it was made over
PaySig(order_id, payment_id) == <<"pay", order_id, payment_id>>
HookSig(body) == <<"hook", body.kind, body.event, body.order_id, body.has_id>>
BadSig == <<"bad">>
NoSig == <<>>

verify_payment(order_id, payment_id, signature) ==
    signature = PaySig(order_id, payment_id)

verify_webhook_signature(body, signature) == signature = HookSig(body)

WebhookBodies ==
    [kind : {"json"}, event : {"payment.captured"},
     order_id : OrderIds \cup {NoOrder}, has_id : BOOLEAN]
    \cup [kind : {"json"}, event : {"payment.failed"},
          order_id : OrderIds, has_id : {TRUE}]
    \cup {[kind |-> "garbage", event |-> Unset, order_id |-> NoOrder, has_id |-> FALSE]}

\* json.loads(body_str): whether the raw body parses to a payload
HookParsesAlways(body) == TRUE

HookParses(body) == body.kind = "json"

\* payload.get("event")
HookEventCaptured(body) == "payment.captured"

HookEvent(body) == body.event

\* payment_data.get("id", "")
BodyPayId(body) == IF body.has_id THEN PayIdOf(body.order_id) ELSE EmptyPayId

GatewayOutcomes == {"ok", "bad_request", "connection", "timeout", "server", "other"}
\* outcomes of the gateway calls of one create-order request, as far as made
GatewayRuns ==
    {<<"ok">>, <<"bad_request">>, <<"other">>, <<"connection", "ok">>,
     <<"timeout", "server", "ok">>, <<"connection", "timeout", "server">>}
RetryableAny == {"connection", "timeout", "server", "other"}

Retryable == {"connection", "timeout", "server"}

\* except razorpay.errors.BadRequestError
BadRequestErrorsNone == {}

BadRequestErrors == {"bad_request"}

\* the exception raised when an attempt is not retried
RaisedAsGeneric(e) == "Exception"

RaisedAs(e) ==
    IF e = "server" THEN "ConnectionError"
    ELSE IF e \in {"connection", "timeout"} THEN "ConnectionError"
    ELSE "Exception"

\* delay *= backoff
NextDelaySame(delay) == delay

NextDelay(delay) == delay * backoff

\* the retry loop of create_order over the outcomes of the gateway calls:
\* what it returns or raises, the number of gateway calls made, and the
\* seconds of each asyncio.sleep in order
RECURSIVE create_order_from(_, _, _, _)
create_order_from(outcomes, attempt, delay, sleeps) ==
    LET e == outcomes[attempt + 1]
        calls == attempt + 1
    IN  IF e = "ok" THEN [result |-> "order", calls |-> calls, sleeps |-> sleeps]
        ELSE IF e \in BadRequestErrors
             THEN [result |-> "ValueError", calls |-> calls, sleeps |-> sleeps]
        ELSE IF attempt < max_retries - 1 /\ e \in Retryable
             THEN create_order_from(outcomes, attempt + 1, NextDelay(delay),
                                    Append(sleeps, delay))
        ELSE [result |-> RaisedAs(e), calls |-> calls, sleeps |-> sleeps]

create_order(outcomes) == create_order_from(outcomes, 0, base_delay, <<>>)

\* ------------------------------------------------------ payment record store
upper(currency) == IF currency = "inr" THEN "INR" ELSE currency
Currencies == {"INR", "inr", "USD"}
\* the currencies asked for in the payment flows; the case-insensitive match
\* is exercised where order creation runs alone
PayCurrencies == {"INR", "USD"}
Amounts == {0, 499}

NewPayment(user_id, email, amount, currency, order_id, t) ==
    [user_id |-> user_id, email |-> email, plan_id |-> "monthly",
     amount |-> amount, currency |-> currency, razorpay_order_id |-> order_id,
     razorpay_payment_id |-> NoPayId, razorpay_signature |-> NoSig,
     status |-> "pending", created_at |-> t]

\* find_one({"razorpay_order_id": order_id}) as a 0- or 1-element sequence
get_payment_any_order(P, order_id) == SubSeq(P, 1, IF Len(P) > 0 THEN 1 ELSE 0)

get_payment_by_order_id(P, order_id) ==
    SelectSeq(P, LAMBDA r : r.razorpay_order_id = order_id)

\* unique index on razorpay_payment_id: a document without the field is
\* indexed under null, so an insert without it collides with any other
\* document without it
InsertDuplicateKey(P) == \E r \in Range(P) : r.razorpay_payment_id = NoPayId

\* and an update collides with any other document holding the same value
UpdateDuplicateKey(P, order_id, payment_id) ==
    \E r \in Range(P) : /\ r.razorpay_order_id # order_id
                        /\ r.razorpay_payment_id = payment_id

update_payment_status_only(P, order_id, payment_id, signature, status) ==
    UpdateWhere(P, LAMBDA r : r.razorpay_order_id = order_id,
                   LAMBDA r : [r EXCEPT !.status = status])

update_payment_status(P, order_id, payment_id, signature, status) ==
    UpdateWhere(P, LAMBDA r : r.razorpay_order_id = order_id,
                   LAMBDA r : [r EXCEPT !.razorpay_payment_id = payment_id,
                                        !.razorpay_signature = signature,
                                        !.status = status])

\* the two validations of create_payment_order
ValidOrderRequestAnyAmount(amount, currency) == upper(currency) = "INR"

ValidOrderRequest(amount, currency) == amount > 0 /\ upper(currency) = "INR"

\* every way the gateway can answer the calls of one create-order request;
\* the loop reads the script as far as it makes calls
GatewayScripts == [1..max_retries -> GatewayOutcomes]

\* the run of create_order made by the request handled last (NoCall if it
\* made none): the gateway's answers, what the loop returned or raised, the
\* calls it made and the sleeps between them
NoCall == [fn |-> "none"]
OrderCall(outcomes) ==
    [fn |-> "create_order", script |-> outcomes,
     result |-> create_order(outcomes).result,
     calls |-> create_order(outcomes).calls,
     sleeps |-> create_order(outcomes).sleeps]

\* the gateway is not called for a request the handler rejects beforehand
GatewayRunsFor(amount, currency) ==
    IF ~ValidOrderRequest(amount, currency) THEN {<<>>} ELSE GatewayRuns

GatewayScriptsFor(amount, currency) ==
    IF ~ValidOrderRequest(amount, currency) THEN {<<>>} ELSE GatewayScripts

\* ------------------------------------------------------------- responses
\* the last request handled: what was asked (req describes the signature
\* and event of a payment request), the status code and the subscription
\* document the service returned (<<>> is None)
RespReq(op, user, months, order, req, code, sub) ==
    [op |-> op, user |-> user, months |-> months, order |-> order,
     req |-> req, code |-> code, sub |-> sub]

Resp(op, user, months, order, code, sub) ==
    RespReq(op, user, months, order, <<>>, code, sub)

Idle == [pc |-> "idle", op |-> "none", user |-> NoUser, order |-> NoOrder,
         payment_id |-> NoPayId, signature |-> NoSig, payment |-> <<>>,
         subscription |-> <<>>, code |-> 0]
ProcIds == {1, 2}

Init ==
    /\ now = 0
    /\ users = [u \in UserIds |-> UserDoc(u)]
    /\ subs = <<>>
    /\ nextSubId = 1
    /\ payments = <<>>
    /\ nextOrder = 1
    /\ resp = Resp("init", NoUser, 0, NoOrder, 0, <<>>)
    /\ procs = [p \in ProcIds |-> Idle]
    /\ renewCalls = [o \in OrderIds |-> 0]
    /\ call = NoCall

\* ------------------------------------------------------------------ time
Tick(d) ==
    /\ now + d <= MaxTime
    /\ now' = now + d
    /\ resp' = Resp("tick", NoUser, 0, NoOrder, 0, <<>>)
    /\ UNCHANGED <<users, subs, nextSubId, payments, nextOrder, procs, renewCalls, call>>

\* --------------------------------------------------- subscription handlers
\* POST /subscriptions/renew
RenewSubscription(u, months) ==
    /\ u \in DOMAIN users
    /\ nextSubId <= MaxSubs
    /\ subs' = renew_subscription(subs, nextSubId, u, months, now)
    /\ nextSubId' = nextSubId + 1
    /\ resp' = Resp("renew", u, months, NoOrder, 201, <<subs'[Len(subs')]>>)
    /\ UNCHANGED <<now, users, payments, nextOrder, procs, renewCalls, call>>

\* POST /subscriptions/cancel
CancelSubscription(u) ==
    /\ u \in DOMAIN users
    /\ subs' = cancel_subscription(subs, u, now)
    /\ resp' = Resp("cancel", u, 0, NoOrder,
                    IF ActiveRows(subs, u) # {} THEN 200 ELSE 404, <<>>)
    /\ UNCHANGED <<now, users, nextSubId, payments, nextOrder, procs, renewCalls, call>>

\* GET /subscriptions/me, GET /profile/subscription
GetMySubscription(u) ==
    /\ u \in DOMAIN users
    /\ \E found \in get_user_subscription(subs, u) :
          resp' = Resp("get_subscription", u, 0, NoOrder,
                       IF found = <<>> THEN 404 ELSE 200, found)
    /\ UNCHANGED <<now, users, subs, nextSubId, payments, nextOrder, procs,
                   renewCalls, call>>

\* GET /download/file
DownloadFile(u, file_exists) ==
    /\ u \in DOMAIN users
    /\ \E found \in get_user_subscription(subs, u) :
          resp' = Resp("download", u, 0, NoOrder,
                       IF found = <<>> THEN 403
                       ELSE IF ~is_subscription_active(found[1], now) THEN 403
                       ELSE IF ~file_exists THEN 500
                       ELSE 200, found)
    /\ UNCHANGED <<now, users, subs, nextSubId, payments, nextOrder, procs,
                   renewCalls, call>>

\* POST /admin/subscriptions/{user_id}/extend
AdminExtendSubscription(u, months) ==
    /\ IF ExtendCandidates(subs, u) = {}
       THEN /\ subs' = subs
            /\ resp' = Resp("extend", u, months, NoOrder, 404, <<>>)
       ELSE \E row \in ExtendCandidates(subs, u) :
            /\ calculate_end_date(row.end_date, months) <= MaxEnd
            /\ calculate_end_date(row.end_date, months) >= 0 - MaxEnd
            /\ subs' = ExtendRow(subs, row, months, now)
            /\ resp' = Resp("extend", u, months, NoOrder, 200,
                            <<CHOOSE r \in Range(subs') : r.id = row.id>>)
    /\ UNCHANGED <<now, users, nextSubId, payments, nextOrder, procs, renewCalls, call>>

\* POST /admin/subscriptions/activate: activate_without_payment; the user id
\* comes from the request body and is not looked up
AdminActivateSubscription(u, months) ==
    /\ nextSubId <= MaxSubs
    /\ subs' = activate_without_payment(subs, nextSubId, u, months, now)
    /\ nextSubId' = nextSubId + 1
    /\ resp' = Resp("activate", u, months, NoOrder, 201, <<subs'[Len(subs')]>>)
    /\ UNCHANGED <<now, users, payments, nextOrder, procs, renewCalls, call>>

\* DELETE /admin/users/{user_id}: delete_user
DeleteUser(u) ==
    /\ IF u \notin DOMAIN users
       THEN /\ resp' = Resp("delete_user", u, 0, NoOrder, 404, <<>>)
            /\ UNCHANGED <<users, subs>>
       ELSE /\ resp' = Resp("delete_user", u, 0, NoOrder, 200, <<>>)
            /\ users' = [v \in DOMAIN users \ {u} |-> users[v]]
            /\ subs' = delete_subscriptions(subs, u)
    /\ UNCHANGED <<now, nextSubId, payments, nextOrder, procs, renewCalls, call>>

\* POST /auth/login: verify_user
Login(email, password) ==
    LET matches == {u \in DOMAIN users : users[u].email = email}
    IN  /\ IF matches = {}
           THEN /\ subs' = subs
                /\ resp' = Resp("login", NoUser, 0, NoOrder, 401, <<>>)
           ELSE \E u \in matches :
                IF ~verify_password(password, users[u].password_hash)
                THEN /\ subs' = subs
                     /\ resp' = Resp("login", NoUser, 0, NoOrder, 401, <<>>)
                ELSE IF ActiveRows(subs, u) = {}
                THEN /\ subs' = subs
                     /\ resp' = Resp("login", u, 0, NoOrder, 200, <<>>)
                ELSE \E row \in ActiveRows(subs, u) :
                     /\ subs' = IF check_subscription_expiry(row, now)
                                THEN ExpireRow(subs, row, now) ELSE subs
                     /\ resp' = Resp("login", u, 0, NoOrder, 200, <<row>>)
        /\ UNCHANGED <<now, users, nextSubId, payments, nextOrder, procs,
                       renewCalls, call>>

\* -------------------------------------------------------- payment handlers
\* POST /payments/create-order
CreatePaymentOrder(u, amount, currency, outcomes) ==
    /\ u \in DOMAIN users
    /\ LET order == IF outcomes = <<>> THEN [result |-> "none"]
                    ELSE create_order(outcomes)
           R(code) == RespReq("create_order", u, 0, NoOrder, <<amount, currency>>,
                              code, <<>>)
       IN  IF ~ValidOrderRequest(amount, currency)
           THEN /\ resp' = R(400)
                /\ UNCHANGED <<payments, nextOrder>>
           ELSE IF order.result = "ValueError"
           THEN /\ resp' = R(400)
                /\ UNCHANGED <<payments, nextOrder>>
           ELSE IF order.result = "ConnectionError"
           THEN /\ resp' = R(503)
                /\ UNCHANGED <<payments, nextOrder>>
           ELSE IF order.result = "Exception"
           THEN /\ resp' = R(500)
                /\ UNCHANGED <<payments, nextOrder>>
           ELSE /\ nextOrder <= MaxOrders
                /\ nextOrder' = nextOrder + 1
                /\ IF InsertDuplicateKey(payments)
                   THEN /\ resp' = R(500)
                        /\ payments' = payments
                   ELSE /\ resp' = RespReq("create_order", u, 0, nextOrder,
                                           <<amount, currency>>, 200, <<>>)
                        /\ payments' = Append(payments,
                              NewPayment(u, users[u].email, amount, currency, nextOrder, now))
    /\ call' = IF ~ValidOrderRequest(amount, currency) \/ outcomes = <<>> THEN NoCall
               ELSE OrderCall(outcomes)
    /\ UNCHANGED <<now, users, subs, nextSubId, procs, renewCalls>>

\* create_payment_order when the process dies after create_order returned
\* the order and before create_payment_record inserts the row
CrashAfterOrder(u, amount, currency, outcomes) ==
    /\ u \in DOMAIN users
    /\ ValidOrderRequest(amount, currency)
    /\ outcomes # <<>>
    /\ create_order(outcomes).result = "order"
    /\ nextOrder <= MaxOrders
    /\ nextOrder' = nextOrder + 1
    /\ resp' = RespReq("create_order_crash", u, 0, nextOrder, <<amount, currency>>,
                       0, <<>>)
    /\ call' = OrderCall(outcomes)
    /\ UNCHANGED <<now, users, subs, nextSubId, payments, procs, renewCalls>>

\* POST /payments/verify
VerifyPayment(u, order_id, payment_id, signature) ==
    /\ u \in DOMAIN users
    /\ LET payment == get_payment_by_order_id(payments, order_id)
           sig == IF verify_payment(order_id, payment_id, signature)
                  THEN <<"valid">> ELSE <<"invalid">>
           R(code) == RespReq("verify", u, 0, order_id, sig, code, <<>>)
       IN  IF payment = <<>>
           THEN /\ resp' = R(404)
                /\ UNCHANGED <<payments, subs, nextSubId, renewCalls>>
           ELSE IF payment[1].user_id # u
           THEN /\ resp' = R(403)
                /\ UNCHANGED <<payments, subs, nextSubId, renewCalls>>
           ELSE IF ~verify_payment(order_id, payment_id, signature)
           THEN /\ resp' = R(400)
                /\ UNCHANGED <<payments, subs, nextSubId, renewCalls>>
           ELSE IF UpdateDuplicateKey(payments, order_id, payment_id)
           THEN /\ resp' = R(500)
                /\ UNCHANGED <<payments, subs, nextSubId, renewCalls>>
           ELSE /\ nextSubId <= MaxSubs
                /\ payments' = update_payment_status(payments, order_id, payment_id,
                                                     signature, "completed")
                /\ subs' = renew_subscription(subs, nextSubId, u, PaymentMonths, now)
                /\ nextSubId' = nextSubId + 1
                /\ renewCalls' = [renewCalls EXCEPT ![order_id] = @ + 1]
                /\ resp' = RespReq("verify", u, 0, order_id, sig, 200,
                                   <<subs'[Len(subs')]>>)
    /\ call' = NoCall
    /\ UNCHANGED <<now, users, nextOrder, procs>>

\* the status guard of razorpay_webhook
HookGuardNone(payment) == payment # <<>>

HookGuard(payment) == payment # <<>> /\ payment[1].status = "pending"

\* POST /payments/webhook
RazorpayWebhook(signature, body) ==
    /\ LET order_id == body.order_id
           payment == get_payment_by_order_id(payments, order_id)
           req == <<IF signature = NoSig THEN "missing"
                    ELSE IF verify_webhook_signature(body, signature) THEN "valid"
                    ELSE "invalid", body.kind, body.event>>
           R(code) == RespReq("webhook", NoUser, 0, order_id, req, code, <<>>)
       IN  IF signature = NoSig \/ ~verify_webhook_signature(body, signature)
           THEN /\ resp' = R(400)
                /\ UNCHANGED <<payments, subs, nextSubId, renewCalls>>
           ELSE IF ~HookParses(body)
           THEN /\ resp' = R(500)
                /\ UNCHANGED <<payments, subs, nextSubId, renewCalls>>
           ELSE IF HookEvent(body) # "payment.captured" \/ order_id = NoOrder
                   \/ ~HookGuard(payment)
           THEN /\ resp' = R(200)
                /\ UNCHANGED <<payments, subs, nextSubId, renewCalls>>
           ELSE IF UpdateDuplicateKey(payments, order_id, BodyPayId(body))
           THEN /\ resp' = R(500)
                /\ UNCHANGED <<payments, subs, nextSubId, renewCalls>>
           ELSE IF payment[1].user_id = NoUser
           THEN /\ payments' = update_payment_status(payments, order_id,
                                  BodyPayId(body), signature, "completed")
                /\ resp' = R(200)
                /\ UNCHANGED <<subs, nextSubId, renewCalls>>
           ELSE /\ nextSubId <= MaxSubs
                /\ payments' = update_payment_status(payments, order_id,
                                  BodyPayId(body), signature, "completed")
                /\ subs' = renew_subscription(subs, nextSubId, payment[1].user_id,
                                              PaymentMonths, now)
                /\ nextSubId' = nextSubId + 1
                /\ renewCalls' = [renewCalls EXCEPT ![order_id] = @ + 1]
                /\ resp' = RespReq("webhook", payment[1].user_id, 0, order_id, req,
                                   200, <<subs'[Len(subs')]>>)
    /\ call' = NoCall
    /\ UNCHANGED <<now, users, nextOrder, procs>>

\* the subscription lifecycle, one request at a time: every handler that
\* reads or writes the subscriptions collection without going through a
\* payment; the payment flows reach the collection only through
\* renew_subscription(user, 1), which RenewSubscription covers
Next ==
    \/ \E d \in TickDays : Tick(d)
    \/ \E u \in UserIds, m \in MonthChoices : RenewSubscription(u, m)
    \/ \E u \in UserIds : CancelSubscription(u)
    \/ \E u \in UserIds : GetMySubscription(u)
    \/ \E u \in UserIds, f \in BOOLEAN : DownloadFile(u, f)
    \/ \E u \in UserIds, m \in MonthChoices : AdminExtendSubscription(u, m)
    \/ \E e \in Emails, pw \in Passwords : Login(e, pw)

Spec == Init /\ [][Next]_vars

\* the payment flows, one request at a time; they read the clock only to
\* stamp the rows they write, and it is held still here
NextPay ==
    \/ \E u \in UserIds, a \in Amounts, c \in PayCurrencies :
          \E g \in GatewayRunsFor(a, c) : CreatePaymentOrder(u, a, c, g)
    \/ \E u \in UserIds, a \in Amounts, c \in PayCurrencies :
          \E g \in GatewayRunsFor(a, c) : CrashAfterOrder(u, a, c, g)
    \/ \E u \in UserIds, o \in OrderIds :
          \E s \in {PaySig(o, PayIdOf(o)), BadSig} : VerifyPayment(u, o, PayIdOf(o), s)
    \/ \E b \in WebhookBodies :
          \E s \in {HookSig(b), BadSig, NoSig} : RazorpayWebhook(s, b)

SpecPay == Init /\ [][NextPay]_vars

CapturedBodies ==
    {b \in WebhookBodies : b.event = "payment.captured" /\ b.order_id # NoOrder /\ b.has_id}

\* the whole life of an account, one request at a time: subscriptions,
\* payments and the deletion of the user; LifeUser is the account that pays,
\* is administered and is deleted, the other user is the bystander who only
\* renews, tries to verify orders that are not theirs, and whose rows must stay
LifeUser == "u1"

NextLife ==
    \/ \E d \in TickDays : Tick(d)
    \/ \E m \in MonthChoices : RenewSubscription(LifeUser, m)
    \/ \E u \in UserIds \ {LifeUser} : RenewSubscription(u, 1)
    \/ AdminActivateSubscription(LifeUser, 1)
    \/ AdminExtendSubscription(LifeUser, 1)
    \/ CancelSubscription(LifeUser)
    \/ Login(Email(LifeUser), "pw-u1")
    \/ DeleteUser(LifeUser)
    \/ CreatePaymentOrder(LifeUser, 499, "INR", <<"ok">>)
    \/ \E u \in UserIds, o \in OrderIds :
          VerifyPayment(u, o, PayIdOf(o), PaySig(o, PayIdOf(o)))
    \/ \E b \in CapturedBodies : RazorpayWebhook(HookSig(b), b)

SpecLife == Init /\ [][NextLife]_vars

\* order creation alone, by one user, against every script of gateway answers
NextOrder ==
    \E a \in Amounts, c \in Currencies :
       \E g \in GatewayScriptsFor(a, c) : CreatePaymentOrder(LifeUser, a, c, g)

SpecOrder == Init /\ [][NextOrder]_vars

\* the writers of end_date, with every months value the schemas accept
NextMonths ==
    \/ \E u \in UserIds, m \in SchemaMonths : RenewSubscription(u, m)
    \/ \E u \in UserIds, m \in SchemaMonths : AdminActivateSubscription(u, m)
    \/ \E u \in UserIds, m \in SchemaMonths : AdminExtendSubscription(u, m)

SpecMonths == Init /\ [][NextMonths]_vars

\* ------------------------------------------------ the date and expiry functions
\* the subscription documents the store can hold, as far as the two checks
\* read them: any status, any end_date
StoredSubscriptions ==
    {[NewSubscription(1, u, 0, 0) EXCEPT !.status = st, !.end_date = e] :
        u \in UserIds, st \in {"active", "expired", "cancelled"}, e \in 0..MaxEnd}

\* calculate_end_date(start_date, months)
CalculateEndDate(start_date, months) ==
    /\ call' = [fn |-> "calculate_end_date", start_date |-> start_date,
                months |-> months,
                result |-> calculate_end_date(start_date, months)]
    /\ UNCHANGED <<now, users, subs, nextSubId, payments, nextOrder, resp, procs,
                   renewCalls>>

\* check_subscription_expiry(subscription) and
\* is_subscription_active(subscription) at the same reading of the clock
CheckSubscription(subscription) ==
    /\ call' = [fn |-> "subscription_checks", subscription |-> subscription,
                at |-> now,
                expired |-> check_subscription_expiry(subscription, now),
                active |-> is_subscription_active(subscription, now)]
    /\ UNCHANGED <<now, users, subs, nextSubId, payments, nextOrder, resp, procs,
                   renewCalls>>

\* the contents the subscriptions collection can have: up to MaxSubs rows of
\* any user and status, created at either end of the clock's range
SubscriptionStores ==
    LET kinds == [user_id : UserIds, status : {"active", "expired", "cancelled"},
                  created_at : {0, MaxTime}]
        Row(i, k) == [NewSubscription(i, k.user_id, 1, k.created_at)
                         EXCEPT !.status = k.status]
    IN  UNION {{[i \in 1..n |-> Row(i, f[i])] : f \in [1..n -> kinds]} : n \in 0..MaxSubs}

\* get_user_subscription(user_id) on a given collection, one lookup per run
GetUserSubscription(S, u) ==
    /\ call = NoCall
    /\ \E found \in get_user_subscription(S, u) :
          call' = [fn |-> "get_user_subscription", store |-> S, user |-> u,
                   result |-> found]
    /\ UNCHANGED <<now, users, subs, nextSubId, payments, nextOrder, resp, procs,
                   renewCalls>>

\* renew_subscription(user_id, months) and activate_without_payment(user_id,
\* months), each run on the same collection at the same time: the collection
\* each leaves and the document each returns
RenewAndActivate(S, u, months) ==
    LET id == Len(S) + 1
        renewed == renew_subscription(S, id, u, months, MaxTime)
        activated == activate_without_payment(S, id, u, months, MaxTime)
    IN  /\ call = NoCall
        /\ call' = [fn |-> "renew_and_activate", store |-> S, user |-> u,
                    months |-> months,
                    renewed |-> renewed, renew_returns |-> renewed[Len(renewed)],
                    activated |-> activated,
                    activate_returns |-> activated[Len(activated)]]
        /\ UNCHANGED <<now, users, subs, nextSubId, payments, nextOrder, resp, procs,
                       renewCalls>>

NextStore ==
    \/ \E S \in SubscriptionStores, u \in UserIds : GetUserSubscription(S, u)
    \/ \E S \in SubscriptionStores, u \in UserIds, m \in MonthChoices :
          RenewAndActivate(S, u, m)

SpecStore == Init /\ [][NextStore]_vars

NextUtil ==
    \/ \E d \in TickDays : Tick(d)
    \/ \E d \in 0..MaxTime, m \in 0..MaxMonths : CalculateEndDate(d, m)
    \/ \E r \in StoredSubscriptions : CheckSubscription(r)

SpecUtil == Init /\ [][NextUtil]_vars

\* ------------------------------------------- payment flows, store step by store step
\* Each of two requests runs one payment flow; every step is one store
\* operation (or the local checks before the first write), and the steps of
\* the two requests interleave freely.
\* a finished request keeps what it was and how it answered; its locals are gone
Done(P, p, code) ==
    [P EXCEPT ![p] = [Idle EXCEPT !.pc = "done", !.op = P[p].op,
                                  !.order = P[p].order, !.code = code]]

\* verify_payment up to the signature check: get_payment_by_order_id
VerifyRead(p, u, order_id, payment_id, signature) ==
    /\ procs[p].pc = "idle"
    /\ u \in DOMAIN users
    /\ LET payment == get_payment_by_order_id(payments, order_id)
           started == [procs EXCEPT ![p] =
                          [pc |-> "mark", op |-> "verify", user |-> u,
                           order |-> order_id, payment_id |-> payment_id,
                           signature |-> signature, payment |-> payment,
                           subscription |-> <<>>, code |-> 0]]
       IN  procs' = IF payment = <<>> THEN Done(started, p, 404)
                    ELSE IF payment[1].user_id # u THEN Done(started, p, 403)
                    ELSE IF ~verify_payment(order_id, payment_id, signature)
                         THEN Done(started, p, 400)
                    ELSE started
    /\ UNCHANGED <<now, users, subs, nextSubId, payments, nextOrder, resp,
                   renewCalls, call>>

\* razorpay_webhook up to the status guard: get_payment_by_order_id
HookRead(p, signature, body) ==
    /\ procs[p].pc = "idle"
    /\ LET payment == get_payment_by_order_id(payments, body.order_id)
           started == [procs EXCEPT ![p] =
                          [pc |-> "mark", op |-> "webhook",
                           user |-> IF payment = <<>> THEN NoUser ELSE payment[1].user_id,
                           order |-> body.order_id, payment_id |-> BodyPayId(body),
                           signature |-> signature, payment |-> payment,
                           subscription |-> <<>>, code |-> 0]]
       IN  procs' = IF signature = NoSig \/ ~verify_webhook_signature(body, signature)
                         THEN Done(started, p, 400)
                    ELSE IF ~HookParses(body) THEN Done(started, p, 500)
                    ELSE IF HookEvent(body) # "payment.captured" \/ body.order_id = NoOrder
                            \/ ~HookGuard(payment)
                         THEN Done(started, p, 200)
                    ELSE started
    /\ UNCHANGED <<now, users, subs, nextSubId, payments, nextOrder, resp,
                   renewCalls, call>>

\* update_payment_status: the row is found by order id and written by _id;
\* payment rows are never deleted, so both hit the same row
MarkSkipped(p) ==
    /\ procs[p].pc = "mark"
    /\ procs' = [procs EXCEPT ![p].pc = "cancel"]
    /\ UNCHANGED <<now, users, subs, nextSubId, payments, nextOrder, resp, renewCalls,
                   call>>

MarkCompleted(p) ==
    /\ procs[p].pc = "mark"
    /\ IF UpdateDuplicateKey(payments, procs[p].order, procs[p].payment_id)
       THEN /\ procs' = Done(procs, p, 500)
            /\ payments' = payments
       ELSE /\ payments' = update_payment_status(payments, procs[p].order,
                              procs[p].payment_id, procs[p].signature, "completed")
            /\ procs' = [procs EXCEPT ![p].pc = "cancel"]
    /\ UNCHANGED <<now, users, subs, nextSubId, nextOrder, resp, renewCalls, call>>

\* renew_subscription: the update_many
RenewCancel(p) ==
    /\ procs[p].pc = "cancel"
    /\ subs' = CancelCurrent(subs, procs[p].user, now)
    /\ renewCalls' = IF procs[p].order \in OrderIds
                      THEN [renewCalls EXCEPT ![procs[p].order] = @ + 1]
                      ELSE renewCalls
    /\ procs' = [procs EXCEPT ![p].pc = "insert"]
    /\ UNCHANGED <<now, users, nextSubId, payments, nextOrder, resp, call>>

\* renew_subscription: the insert_one of create_subscription
RenewInsert(p) ==
    /\ procs[p].pc = "insert"
    /\ nextSubId <= MaxSubs
    /\ subs' = create_subscription(subs, nextSubId, procs[p].user, PaymentMonths, now)
    /\ nextSubId' = nextSubId + 1
    /\ procs' = Done(procs, p, 200)
    /\ UNCHANGED <<now, users, payments, nextOrder, resp, renewCalls, call>>

\* the process handling a request dies between two of its store operations
Crash(p) ==
    /\ procs[p].pc \in {"mark", "cancel", "insert"}
    /\ procs' = [Done(procs, p, 0) EXCEPT ![p].pc = "crashed", ![p].user = procs[p].pc]
    /\ UNCHANGED <<now, users, subs, nextSubId, payments, nextOrder, resp, renewCalls,
                   call>>

NextConc ==
    \/ \E u \in UserIds : CreatePaymentOrder(u, 499, "INR", <<"ok">>)
    \/ \E p \in ProcIds, u \in UserIds, o \in OrderIds :
          \E s \in {PaySig(o, PayIdOf(o)), BadSig} : VerifyRead(p, u, o, PayIdOf(o), s)
    \/ \E p \in ProcIds, b \in WebhookBodies :
          \E s \in {HookSig(b), BadSig, NoSig} : HookRead(p, s, b)
    \/ \E p \in ProcIds : MarkCompleted(p)
    \/ \E p \in ProcIds : RenewCancel(p)
    \/ \E p \in ProcIds : RenewInsert(p)
    \/ \E p \in ProcIds : Crash(p)

SpecConc == Init /\ [][NextConc]_vars

\* ------------------------------------ subscription flows, store step by store step
\* Two requests that work on the subscriptions collection run step by step
\* and interleave; the handlers of Spec that are one store operation, or that
\* run with nothing in between, stay single steps.
\* verify_user after the password check: the find_one of the active row
LoginRead(p, u) ==
    /\ procs[p].pc = "idle"
    /\ u \in DOMAIN users
    /\ LET started(found) ==
               [procs EXCEPT ![p] = [Idle EXCEPT !.pc = "expire", !.op = "login",
                                                 !.user = u, !.subscription = found]]
       IN  IF ActiveRows(subs, u) = {}
           THEN procs' = Done(started(<<>>), p, 200)
           ELSE \E row \in ActiveRows(subs, u) :
                   procs' = IF check_subscription_expiry(row, now)
                            THEN started(<<row>>)
                            ELSE Done(started(<<row>>), p, 200)
    /\ UNCHANGED <<now, users, subs, nextSubId, payments, nextOrder, resp,
                   renewCalls, call>>

\* verify_user: the update_one by _id of the row found
LoginExpire(p) ==
    /\ procs[p].pc = "expire"
    /\ subs' = ExpireRow(subs, procs[p].subscription[1], now)
    /\ procs' = Done(procs, p, 200)
    /\ UNCHANGED <<now, users, nextSubId, payments, nextOrder, resp, renewCalls, call>>

\* POST /subscriptions/renew and POST /admin/subscriptions/activate entered
\* with months = 1: renew_subscription / activate_without_payment is about to
\* run its update_many
RenewStart(p, u, op) ==
    /\ procs[p].pc = "idle"
    /\ u \in DOMAIN users
    /\ procs' = [procs EXCEPT ![p] = [Idle EXCEPT !.pc = "cancel", !.op = op,
                                                  !.user = u]]
    /\ UNCHANGED <<now, users, subs, nextSubId, payments, nextOrder, resp,
                   renewCalls, call>>

NextSubs ==
    \/ \E d \in TickDays : Tick(d)
    \/ \E u \in UserIds, m \in MonthChoices : RenewSubscription(u, m)
    \/ \E u \in UserIds : CancelSubscription(u)
    \/ \E p \in ProcIds, u \in UserIds : LoginRead(p, u)
    \/ \E p \in ProcIds : LoginExpire(p)
    \/ \E p \in ProcIds, u \in UserIds, op \in {"renew", "activate"} : RenewStart(p, u, op)
    \/ \E p \in ProcIds : RenewCancel(p)
    \/ \E p \in ProcIds : RenewInsert(p)

SpecSubs == Init /\ [][NextSubs]_vars

\* ================================================================ properties
PaymentOf(P, order_id) == {r \in Range(P) : r.razorpay_order_id = order_id}

RowsOf(S, u) == {i \in 1..Len(S) : S[i].user_id = u}

\* C1: for one order, one verify call of the owner with a valid signature
\* and one payment.captured delivery, interleaved in any way, invoke
\* renew_subscription at most once for that order.
C1_OneRenewPerOrder ==
    \A o \in OrderIds :
        (\E p, q \in ProcIds : /\ p # q
                               /\ procs[p].op = "verify" /\ procs[p].order = o
                               /\ procs[q].op = "webhook" /\ procs[q].order = o)
        => renewCalls[o] <= 1

\* C2: a verify call on an order that a verify call has already completed,
\* with the same valid signature, creates no subscription row and cancels none.
C2_SecondVerifyIsNoOp ==
    [][(/\ resp'.op = "verify"
        /\ resp'.req = <<"valid">>
        /\ \E r \in PaymentOf(payments, resp'.order) :
              /\ r.status = "completed"
              /\ r.razorpay_signature = PaySig(resp'.order, PayIdOf(resp'.order)))
       => subs' = subs]_vars

\* C3: a validly signed payment.captured delivery for a payment that is
\* already completed leaves the payment rows and the subscription rows as
\* they were and answers success; this holds of every such delivery.
C3_WebhookReplayNoOp ==
    [][(/\ resp'.op = "webhook"
        /\ resp'.req = <<"valid", "json", "payment.captured">>
        /\ \E r \in PaymentOf(payments, resp'.order) : r.status = "completed")
       => (payments' = payments /\ subs' = subs /\ resp'.code = 200)]_vars

C3_Witness ==
    /\ resp.op = "webhook"
    /\ resp.req = <<"valid", "json", "payment.captured">>
    /\ resp.code = 200
    /\ resp.sub = <<>>
    /\ \E r \in PaymentOf(payments, resp.order) : r.status = "completed"
    /\ subs # <<>>

\* C4: once a payment row is completed, no later verify or webhook call
\* writes its status, razorpay_payment_id or razorpay_signature again.
C4_CompletedWrittenOnce ==
    [][\A i \in 1..Len(payments) :
          payments[i].status = "completed" => payments'[i] = payments[i]]_vars

\* C5: after renew_subscription(u, m) exactly one row of u is active, the
\* newly inserted one; every row of u that was active or expired is now
\* cancelled with cancelled_at set; rows of u already cancelled are unchanged.
C5_RenewSupersedes ==
    [][resp'.op = "renew" =>
        LET u == resp'.user
            n == Len(subs')
        IN  /\ n = Len(subs) + 1
            /\ subs'[n].user_id = u
            /\ {i \in RowsOf(subs', u) : subs'[i].status = "active"} = {n}
            /\ \A i \in RowsOf(subs, u) :
                  IF subs[i].status \in {"active", "expired"}
                  THEN subs'[i].status = "cancelled" /\ subs'[i].cancelled_at # <<>>
                  ELSE subs'[i] = subs[i]]_vars

C5_Witness ==
    /\ resp.op = "renew"
    /\ \E i \in RowsOf(subs, resp.user) :
          subs[i].status = "cancelled" /\ subs[i].cancelled_at = <<now>>
    /\ Cardinality({i \in RowsOf(subs, resp.user) : subs[i].status = "active"}) = 1

\* C6: the current-subscription query never returns a row as active whose
\* end_date is before now: such a row is stored as expired and returned as
\* expired.
C6_LazyExpiryOnRead ==
    (resp.op \in {"get_subscription", "download"} /\ resp.sub # <<>>)
    => /\ ~(resp.sub[1].status = "active" /\ resp.sub[1].end_date < now)
       /\ \A i \in 1..Len(subs) :
             subs[i].id = resp.sub[1].id
             => ~(subs[i].status = "active" /\ subs[i].end_date < now)

\* C7: a successful login of u stores u's active row whose end_date is before
\* now as expired and leaves an active row whose end_date is at or after now
\* unchanged; a failed login changes no subscription row.
C7_LoginExpiry ==
    [][resp'.op = "login" =>
        IF resp'.code = 200
        THEN /\ Len(subs') = Len(subs)
             /\ \A i \in 1..Len(subs) :
                   IF /\ subs[i].user_id = resp'.user
                      /\ subs[i].status = "active"
                      /\ subs[i].end_date < now
                   THEN subs'[i] = [subs[i] EXCEPT !.status = "expired",
                                                   !.updated_at = now]
                   ELSE subs'[i] = subs[i]
        ELSE subs' = subs]_vars

C7_Witness ==
    /\ resp.op = "login"
    /\ resp.code = 200
    /\ resp.sub # <<>>
    /\ resp.sub[1].status = "active"
    /\ resp.sub[1].end_date < now
    /\ \E i \in 1..Len(subs) : subs[i].id = resp.sub[1].id /\ subs[i].status = "expired"

\* C8: the download endpoint grants the file only if the most recent row of
\* the user among the active and expired ones has status active and
\* now <= end_date; a stored active row whose end_date has passed is refused.
C8_DownloadRecomputes ==
    resp.op = "download" =>
        LET c == {r \in Range(subs) : /\ r.user_id = resp.user
                                      /\ r.status \in {"active", "expired"}}
            latest == {r \in c : \A x \in c : x.created_at <= r.created_at}
        IN  /\ resp.code = 200 =>
                 /\ c # {}
                 /\ \A r \in latest : r.status = "active" /\ now <= r.end_date
            /\ (\E r \in latest : r.status = "active" /\ now > r.end_date)
                 => resp.code = 403

C8_Witness ==
    /\ resp.op = "download"
    /\ resp.code = 200
    /\ resp.sub[1].end_date = now
    /\ \E r \in Range(subs) : r.user_id = resp.user /\ r.status = "cancelled"

\* C9: extend_subscription(u, m) on a user with an active row sets that
\* row's end_date to its previous end_date + 30*m days whatever the time is,
\* leaves its status, start_date, user_id and created_at and every other row
\* unchanged, and inserts no row.
C9_ExtendStacks ==
    [][(resp'.op = "extend"
        /\ \E i \in RowsOf(subs, resp'.user) : subs[i].status = "active") =>
        /\ resp'.code = 200
        /\ Len(subs') = Len(subs)
        /\ \E i \in RowsOf(subs, resp'.user) :
              /\ subs[i].status = "active"
              /\ subs'[i].end_date = subs[i].end_date + (30 * resp'.months)
              /\ subs'[i].status = subs[i].status
              /\ subs'[i].start_date = subs[i].start_date
              /\ subs'[i].user_id = subs[i].user_id
              /\ subs'[i].created_at = subs[i].created_at
              /\ subs'[i].id = subs[i].id
              /\ \A j \in 1..Len(subs) : j # i => subs'[j] = subs[j]]_vars

C9_Witness ==
    /\ resp.op = "extend"
    /\ resp.code = 200
    /\ resp.months = 1
    /\ resp.sub[1].end_date # now + 30
    /\ resp.sub[1].end_date = resp.sub[1].start_date + 60

\* C10: extend_subscription(u, m) on a user without an active row returns
\* none (404) and leaves the subscription store unchanged.
C10_ExtendWithoutActive ==
    [][(resp'.op = "extend"
        /\ ~\E i \in RowsOf(subs, resp'.user) : subs[i].status = "active") =>
        /\ resp'.sub = <<>>
        /\ resp'.code = 404
        /\ subs' = subs
        /\ nextSubId' = nextSubId]_vars

C10_Witness ==
    /\ resp.op = "extend"
    /\ resp.code = 404
    /\ \E i \in RowsOf(subs, resp.user) : subs[i].status = "expired"
    /\ \E i \in RowsOf(subs, resp.user) : subs[i].status = "cancelled"

C12_VerifyCheckOrder ==
    [][resp'.op = "verify" =>
        LET found == PaymentOf(payments, resp'.order)
            unchanged == /\ payments' = payments
                         /\ subs' = subs
                         /\ nextSubId' = nextSubId
        IN  IF found = {}
            THEN resp'.code = 404 /\ unchanged
            ELSE IF \E r \in found : r.user_id # resp'.user
            THEN resp'.code = 403 /\ unchanged
            ELSE IF resp'.req = <<"invalid">>
            THEN resp'.code = 400 /\ unchanged
            ELSE resp'.code \notin {400, 403, 404}]_vars

C12_Witness ==
    /\ resp.op = "verify"
    /\ resp.req = <<"valid">>
    /\ resp.code = 403
    /\ \E r \in PaymentOf(payments, resp.order) :
          r.user_id # resp.user /\ r.status = "pending"
    /\ subs = <<>>

C14_WebhookAlwaysSuccess ==
    (resp.op = "webhook" /\ resp.req[1] = "valid") => resp.code = 200

C16_RetryTwiceThenSucceed ==
    (call.fn = "create_order" /\ call.script = <<"connection", "connection", "ok">>)
    => /\ call.result = "order"
       /\ call.calls = 3
       /\ call.sleeps = <<1, 2>>

C16_Witness ==
    /\ call.fn = "create_order"
    /\ call.script = <<"connection", "connection", "ok">>
    /\ call.result = "order"
    /\ resp.op = "create_order"
    /\ resp.code = 200
    /\ \E r \in PaymentOf(payments, resp.order) : r.status = "pending"

\* the first attempt of a script that does not fail transiently (0 if none)
FirstFinal(script) ==
    IF \A k \in DOMAIN script : script[k] \in {"connection", "timeout", "server"}
    THEN 0
    ELSE CHOOSE k \in DOMAIN script :
            /\ script[k] \notin {"connection", "timeout", "server"}
            /\ \A j \in 1..(k - 1) : script[j] \in {"connection", "timeout", "server"}

\* C17: create_order makes a further gateway call only after a connection,
\* timeout or gateway-server failure; a bad-request failure on any attempt
\* ends the loop at that attempt with no sleep after it, raises ValueError
\* and is answered 400.
C17_BadRequestNotRetried ==
    (resp.op = "create_order" /\ call.fn = "create_order")
    => LET k == FirstFinal(call.script)
       IN  /\ \A j \in 1..(call.calls - 1) :
                 call.script[j] \in {"connection", "timeout", "server"}
           /\ k > 0 => call.calls = k
           /\ (k > 0 /\ call.script[k] = "bad_request")
                 => /\ call.result = "ValueError"
                    /\ Len(call.sleeps) = k - 1
                    /\ resp.code = 400
                    /\ resp.order = NoOrder

C17_Witness ==
    /\ resp.op = "create_order"
    /\ resp.code = 400
    /\ call.fn = "create_order"
    /\ call.script = <<"timeout", "server", "bad_request">>
    /\ call.calls = 3
    /\ call.sleeps = <<1, 2>>

\* C18: when all 3 attempts fail with connection, timeout or gateway-server
\* errors, in any mix, create_order raises ConnectionError after 3 calls and
\* the request is answered 503; a bad-request failure is answered 400 and any
\* other failure 500, never 503.
C18_ExhaustedIsUnavailable ==
    (resp.op = "create_order" /\ call.fn = "create_order")
    => /\ (\A k \in 1..3 : call.script[k] \in {"connection", "timeout", "server"})
            => /\ call.result = "ConnectionError"
               /\ call.calls = 3
               /\ resp.code = 503
       /\ resp.code = 503
            => \A k \in 1..3 : call.script[k] \in {"connection", "timeout", "server"}

C18_Witness ==
    /\ resp.op = "create_order"
    /\ resp.code = 503
    /\ call.fn = "create_order"
    /\ call.script = <<"timeout", "server", "connection">>
    /\ call.sleeps = <<1, 2>>
    /\ payments = <<>>

\* C19: for every start date d and every months >= 0,
\* calculate_end_date(d, months) is d plus exactly 30 * months days; for
\* months = 0 it is d.
C19_ThirtyDayMonths ==
    (call.fn = "calculate_end_date" /\ call.months >= 0)
    => /\ call.result = call.start_date + (30 * call.months)
       /\ call.months = 0 => call.result = call.start_date

C19_Witness ==
    /\ call.fn = "calculate_end_date"
    /\ call.start_date = 1
    /\ call.months = 12
    /\ call.result = 361

\* C20: for every subscription record and time, is_subscription_active is
\* true exactly when status is active and now <= end_date, and
\* check_subscription_expiry is true exactly when status is not cancelled and
\* now > end_date; the two are never both true, and at now = end_date an
\* active subscription is active and not expired.
C20_ActiveAndExpired ==
    call.fn = "subscription_checks"
    => LET r == call.subscription
           t == call.at
       IN  /\ call.active <=> (r.status = "active" /\ t <= r.end_date)
           /\ call.expired <=> (r.status # "cancelled" /\ t > r.end_date)
           /\ ~(call.active /\ call.expired)
           /\ (r.status = "active" /\ t = r.end_date)
                 => (call.active /\ ~call.expired)

C20_Witness ==
    /\ call.fn = "subscription_checks"
    /\ call.at = 30
    /\ call.subscription.status = "active"
    /\ call.subscription.end_date = 30
    /\ call.active
    /\ ~call.expired

\* C21: in every reachable state every subscription row has
\* end_date >= start_date, whatever months values renew, admin activate and
\* extend were called with.
C21_EndNotBeforeStart ==
    \A i \in 1..Len(subs) : subs[i].end_date >= subs[i].start_date

\* the orders the gateway has created for this system
GatewayOrders == 1..(nextOrder - 1)

\* C22: in no reachable state, a crash or a store failure between the two
\* steps of create-order included, does the gateway hold an order of this
\* system for which no payment row with that order id exists.
C22_OrderHasPaymentRow ==
    \A o \in GatewayOrders : PaymentOf(payments, o) # {}

\* C23: in the verify flow and in the webhook flow the renew step of an order
\* runs only after the order's payment row is written as completed: a flow
\* that cancels or inserts subscription rows does so for a completed payment,
\* every change of the subscription rows is such a step, and a flow that dies
\* before its renew step leaves the rows as they were.
C23_RenewAfterCompleted ==
    [][/\ \A p \in ProcIds :
            (procs[p].pc \in {"cancel", "insert"} /\ procs'[p] # procs[p])
            => \E r \in PaymentOf(payments, procs[p].order) : r.status = "completed"
       /\ subs' # subs
            => \E p \in ProcIds :
                  /\ procs[p].pc \in {"cancel", "insert"}
                  /\ procs'[p].pc \in {"insert", "done"}
                  /\ \E r \in PaymentOf(payments', procs[p].order) :
                        r.status = "completed"
       /\ \A o \in OrderIds :
            renewCalls'[o] > 0
            => \E r \in PaymentOf(payments', o) : r.status = "completed"]_vars

C23_Witness ==
    \E p \in ProcIds :
        /\ procs[p].pc = "crashed"
        /\ procs[p].user = "cancel"
        /\ \E r \in PaymentOf(payments, procs[p].order) : r.status = "completed"
        /\ renewCalls[procs[p].order] = 0
        /\ subs = <<>>

\* C24: cancel_subscription(u) turns every active row of u into a cancelled
\* row stamped with cancelled_at and reports success exactly when there was
\* one; expired and cancelled rows of u and the rows of other users are left
\* as they were, and without an active row it reports failure and changes
\* nothing.
C24_CancelActiveOnly ==
    [][resp'.op = "cancel" =>
        LET u == resp'.user
            hit == {i \in RowsOf(subs, u) : subs[i].status = "active"}
        IN  /\ Len(subs') = Len(subs)
            /\ \A i \in 1..Len(subs) :
                  IF i \in hit
                  THEN subs'[i] = [subs[i] EXCEPT !.status = "cancelled",
                                                  !.cancelled_at = <<now>>,
                                                  !.updated_at = now]
                  ELSE subs'[i] = subs[i]
            /\ (resp'.code = 200) <=> (hit # {})
            /\ hit = {} => (resp'.code = 404 /\ subs' = subs)]_vars

C24_Witness ==
    /\ resp.op = "cancel"
    /\ resp.code = 200
    /\ \E i \in RowsOf(subs, resp.user) :
          subs[i].status = "cancelled" /\ subs[i].cancelled_at = <<now>>
    /\ \E i \in RowsOf(subs, resp.user) :
          subs[i].status = "cancelled" /\ subs[i].cancelled_at # <<now>>

\* C25: get_user_subscription(u) returns the row with the greatest created_at
\* among the rows of u whose status is active or expired, never a cancelled
\* row or a row of another user, and returns none exactly when u has no row
\* or only cancelled rows.
C25_MostRecentCurrent ==
    call.fn = "get_user_subscription"
    => LET mine == {r \in Range(call.store) : r.user_id = call.user}
           live == {r \in mine : r.status # "cancelled"}
       IN  /\ (call.result = <<>>) <=> (live = {})
           /\ call.result # <<>>
                => /\ call.result[1] \in live
                   /\ call.result[1].user_id = call.user
                   /\ call.result[1].status \in {"active", "expired"}
                   /\ \A r \in live : r.created_at <= call.result[1].created_at

C25_Witness ==
    /\ call.fn = "get_user_subscription"
    /\ Len(call.store) = 2
    /\ call.result # <<>>
    /\ call.result[1].id = 1
    /\ call.store[2].user_id = call.user
    /\ call.store[2].status = "active"
    /\ call.store[2].created_at < call.result[1].created_at

SubscriptionIds(S, u) == {S[i].id : i \in RowsOf(S, u)}

\* C26: subscription history is append-only: a step of renew, admin
\* activate, extend, cancel, login, verify or webhook never removes a
\* subscription row id from any user; only delete_user removes rows, and it
\* removes every row of the deleted user and no row of any other user.
C26_AppendOnly ==
    [][IF resp'.op = "delete_user" /\ resp'.code = 200
       THEN /\ SubscriptionIds(subs', resp'.user) = {}
            /\ subs' = SelectSeq(subs, LAMBDA r : r.user_id # resp'.user)
       ELSE \A u \in UserIds :
               SubscriptionIds(subs, u) \subseteq SubscriptionIds(subs', u)]_vars

C26_Witness ==
    /\ resp.op = "delete_user"
    /\ resp.code = 200
    /\ nextSubId = 3
    /\ Len(subs) = 1
    /\ subs[1].user_id # resp.user

\* C27: a payment.captured delivery for a pending payment whose user has been
\* deleted marks the payment completed without invoking renew_subscription
\* and without creating a subscription row, the payment rows of a deleted
\* user being kept with their email and without their user_id.
C27_DeletedUserNotRenewed ==
    [][IF resp'.op = "delete_user" /\ resp'.code = 200
       THEN /\ Len(payments') = Len(payments)
            /\ \A i \in 1..Len(payments) :
                  payments'[i] = [payments[i] EXCEPT
                                    !.user_id = IF @ = resp'.user THEN NoUser ELSE @]
       ELSE \A o \in OrderIds :
               (/\ resp'.op = "webhook"
                /\ resp'.order = o
                /\ \E r \in PaymentOf(payments, o) :
                      /\ r.status = "pending"
                      /\ r.email \notin {users[u].email : u \in DOMAIN users}
                /\ \E r \in PaymentOf(payments', o) : r.status = "completed")
               => (subs' = subs /\ renewCalls' = renewCalls)]_vars

\* C28: no two payment rows share a razorpay_order_id, and rows whose
\* razorpay_payment_id is not yet set do not constrain one another: a
\* create-order request that passes validation and gets its gateway order
\* succeeds and inserts a pending row, however many earlier rows are still
\* pending.
C28_PendingRowsCoexist ==
    [][/\ \A i, j \in 1..Len(payments') :
            payments'[i].razorpay_order_id = payments'[j].razorpay_order_id => i = j
       /\ (/\ resp'.op = "create_order"
           /\ call'.fn = "create_order"
           /\ call'.result = "order")
            => /\ resp'.code = 200
               /\ Len(payments') = Len(payments) + 1
               /\ payments'[Len(payments')].status = "pending"]_vars

\* C29: create-order answers 400 to an amount <= 0 and to a currency other
\* than INR (in either case of letters) without calling the gateway, and a
\* create-order request that fails, for whatever reason, inserts no payment
\* row and changes none.
C29_FailedOrderWritesNothing ==
    [][resp'.op = "create_order" =>
        LET amount == resp'.req[1]
            currency == resp'.req[2]
            invalid == amount <= 0 \/ currency \notin {"INR", "inr"}
        IN  /\ invalid => (resp'.code = 400 /\ call' = NoCall)
            /\ resp'.code # 200 => payments' = payments
            /\ resp'.code = 200 => ~invalid]_vars

C29_Witness ==
    /\ resp.op = "create_order"
    /\ resp.req = <<0, "INR">>
    /\ resp.code = 400
    /\ call = NoCall
    /\ Len(payments) = 1

\* C30: when two deliveries of the payment.captured event of one pending
\* payment are handled concurrently, their store steps interleaved in any
\* way, renew_subscription is invoked at most once for that order and at
\* most one subscription row is created.
C30_OneRenewPerDelivery ==
    \A o \in OrderIds :
        (\A p \in ProcIds : procs[p].op = "webhook" /\ procs[p].order = o)
        => /\ renewCalls[o] <= 1
           /\ Len(subs) <= 1

\* C31: a status write looks at the row's status at write time: when the
\* login-time expiry of a row interleaves with a renew or cancel that cancels
\* the row between the login's read and its write, the row stays cancelled;
\* no step moves a cancelled row to expired or active.
C31_CancelledStaysCancelled ==
    [][\A i \in 1..Len(subs) :
          subs[i].status = "cancelled" => subs'[i].status = "cancelled"]_vars

\* C33: when two renew or activate operations of one user run concurrently,
\* each doing its update_many and then its insert with the four store steps
\* interleaved in any way, the user ends with exactly one active row. (Each
\* finished operation has inserted a row of its user, so both were for u
\* when every row belongs to u.)
C33_OneActiveAfterTwoRenews ==
    \A u \in UserIds :
        (/\ \A p \in ProcIds : procs[p].pc = "done" /\ procs[p].op \in {"renew", "activate"}
         /\ \A r \in Range(subs) : r.user_id = u)
        => Cardinality(ActiveRows(subs, u)) = 1

\* C32: with operations run one at a time, after any sequence of renew, admin
\* activate, extend, cancel, login, verify and webhook operations every user
\* has at most one subscription row whose status is active or expired.
C32_OneCurrentRow ==
    \A u \in UserIds : Cardinality(CurrentRows(subs, u)) <= 1

C32_Witness ==
    /\ resp.op = "webhook"
    /\ resp.code = 200
    /\ Len(subs) = 2
    /\ \A i \in 1..2 : subs[i].user_id = resp.user
    /\ subs[1].status = "cancelled"
    /\ subs[1].end_date < now
    /\ subs[2].status = "active"

StatusMoves ==
    {<<"active", "expired">>, <<"active", "cancelled">>, <<"expired", "cancelled">>}

\* C34: with operations run one at a time, the status of a subscription row
\* changes only from active to expired, from active to cancelled or from
\* expired to cancelled: a cancelled row keeps its status, an expired row
\* never becomes active, and extend changes no row's status.
C34_StatusMoves ==
    [][\A i \in 1..Len(subs), j \in 1..Len(subs') :
          subs[i].id = subs'[j].id
          => /\ \/ subs'[j].status = subs[i].status
                \/ <<subs[i].status, subs'[j].status>> \in StatusMoves
             /\ resp'.op = "extend" => subs'[j].status = subs[i].status]_vars

C34_Witness ==
    /\ resp.op = "login"
    /\ resp.code = 200
    /\ Len(subs) = 2
    /\ \A i \in 1..2 : subs[i].user_id = resp.user
    /\ subs[1].status = "cancelled"
    /\ subs[2].status = "expired"
    /\ subs[2].updated_at = now

SubscriptionOps == {"renew", "activate", "extend", "cancel", "login", "verify", "webhook"}

\* C40: operations are isolated per user: a renew, admin activate, extend,
\* cancel, login, verify or webhook step done for one user (or for a payment
\* of that user) leaves every subscription row of every other user as it
\* was and adds rows only for that user, and a verify or webhook step that
\* adds a row adds it for the user recorded on the payment row of its order.
C40_PerUserIsolation ==
    [][resp'.op \in SubscriptionOps =>
        LET a == resp'.user
            added == {subs'[j] : j \in (Len(subs) + 1)..Len(subs')}
        IN  /\ Len(subs') >= Len(subs)
            /\ \A i \in 1..Len(subs) : subs[i].user_id # a => subs'[i] = subs[i]
            /\ \A r \in added : r.user_id = a
            /\ (resp'.op \in {"verify", "webhook"} /\ added # {})
                  => \A r \in added : \E q \in PaymentOf(payments, resp'.order) :
                        r.user_id = q.user_id]_vars

C40_Witness ==
    /\ resp.op = "verify"
    /\ resp.code = 200
    /\ Len(subs) = 2
    /\ subs[1].user_id # resp.user
    /\ subs[1].status = "active"
    /\ subs[2].user_id = resp.user
    /\ \E q \in PaymentOf(payments, resp.order) : q.user_id = resp.user

\* C35: renew_subscription is unconditional: whatever rows the user has (none,
\* an active one that has or has not lapsed, an expired one, only cancelled
\* ones) the request can run and succeeds, and the new active row starts now
\* and ends 30 * months days from now, with no time of a still active
\* subscription carried into it.
C35_RenewFromNow ==
    [][/\ \A u \in DOMAIN users, m \in MonthChoices :
             nextSubId <= MaxSubs => ENABLED RenewSubscription(u, m)
       /\ resp'.op = "renew"
             => /\ resp'.code = 201
                /\ Len(subs') = Len(subs) + 1
                /\ subs'[Len(subs')].user_id = resp'.user
                /\ subs'[Len(subs')].status = "active"
                /\ subs'[Len(subs')].start_date = now
                /\ subs'[Len(subs')].end_date = now + DaysPerMonth * resp'.months
                /\ resp'.sub = <<subs'[Len(subs')]>>]_vars

C35_Witness ==
    /\ resp.op = "renew"
    /\ resp.code = 201
    /\ Len(subs) = 2
    /\ subs[1].user_id = resp.user
    /\ subs[1].status = "cancelled"
    /\ subs[1].end_date > now
    /\ subs[2].user_id = resp.user
    /\ subs[2].status = "active"
    /\ subs[2].end_date < subs[1].end_date

\* C36: activate_without_payment(u, m) and renew_subscription(u, m), started
\* from the same subscription rows at the same time, leave the same rows (the
\* same rows cancelled, the same new active row) and return the same document.
C36_ActivateIsRenew ==
    call.fn = "renew_and_activate"
    => /\ call.activated = call.renewed
       /\ call.activate_returns = call.renew_returns

C36_Witness ==
    /\ call.fn = "renew_and_activate"
    /\ Len(call.store) = 2
    /\ call.store[1].user_id = call.user
    /\ call.store[1].status = "expired"
    /\ call.store[2].user_id # call.user
    /\ call.store[2].status = "active"
    /\ call.activated[1].status = "cancelled"
    /\ call.activated[2] = call.store[2]
    /\ call.activate_returns.status = "active"
    /\ call.activate_returns.user_id = call.user

\* 2^(k-1)
RECURSIVE Doubled(_)
Doubled(k) == IF k <= 1 THEN 1 ELSE 2 * Doubled(k - 1)

\* C37: every invocation of create_order ends, with an order or an exception,
\* after at most 3 gateway calls and at most 2 delays, whatever the gateway
\* answers; every delay is followed by a further attempt, the k-th delay is
\* 2^(k-1) seconds, and the first successful gateway call ends the invocation
\* with that order.
C37_CreateOrderTerminates ==
    call.fn = "create_order"
    => /\ call.result \in {"order", "ValueError", "ConnectionError", "Exception"}
       /\ call.calls \in 1..3
       /\ Len(call.sleeps) <= 2
       /\ Len(call.sleeps) = call.calls - 1
       /\ \A k \in 1..Len(call.sleeps) : call.sleeps[k] = Doubled(k)
       /\ \A k \in 1..(call.calls - 1) : call.script[k] # "ok"
       /\ (call.result = "order") <=> (call.script[call.calls] = "ok")

C37_Witness ==
    /\ call.fn = "create_order"
    /\ call.script = <<"server", "server", "server">>
    /\ call.calls = 3
    /\ call.sleeps = <<1, 2>>
    /\ call.result = "ConnectionError"

\* C38: a gateway failure that is neither transient nor a bad request is not
\* retried on any attempt and is answered 500, never 400 or 503; a request
\* whose last gateway call failed is answered by the kind of that failure
\* (bad request 400, transient 503, anything else 500), and every request
\* ends in exactly one of 200, 400, 503 and 500.
C38_UnexpectedIsInternal ==
    (resp.op = "create_order" /\ call.fn = "create_order")
    => LET last == call.script[call.calls]
       IN  /\ \A k \in 1..3 :
                 (call.script[k] = "other" /\ call.calls >= k)
                 => /\ call.calls = k
                    /\ call.result = "Exception"
                    /\ resp.code = 500
           /\ resp.code \in {200, 400, 503, 500}
           /\ last = "bad_request" => resp.code = 400
           /\ last \in {"connection", "timeout", "server"} => resp.code = 503
           /\ last = "other" => resp.code = 500
           /\ resp.code \in {400, 503} => last # "other"

C38_Witness ==
    /\ resp.op = "create_order"
    /\ resp.code = 500
    /\ call.fn = "create_order"
    /\ call.script[1] = "connection"
    /\ call.script[2] = "other"
    /\ call.calls = 2
    /\ call.sleeps = <<1>>
    /\ call.result = "Exception"

\* C39: when a verify flow has died after marking the payment completed and
\* before its renew, a payment.captured delivery that arrives afterwards for
\* that order does nothing: it ends at its status guard and changes neither
\* the payment rows nor the subscription rows, so the completed payment stays
\* without a subscription until some other operation runs.
C39_WebhookDoesNotHeal ==
    [][\A p, q \in ProcIds, o \in OrderIds :
          (/\ procs[q].pc = "crashed"
           /\ procs[q].op = "verify"
           /\ procs[q].user = "cancel"
           /\ procs[q].order = o
           /\ procs[p].pc = "idle"
           /\ procs'[p].op = "webhook"
           /\ procs'[p].order = o)
          => /\ procs'[p].pc = "done"
             /\ subs' = subs
             /\ payments' = payments
             /\ renewCalls' = renewCalls]_vars

C39_Witness ==
    \E p, q \in ProcIds :
        /\ procs[q].pc = "crashed"
        /\ procs[q].op = "verify"
        /\ procs[q].user = "cancel"
        /\ procs[p].pc = "done"
        /\ procs[p].op = "webhook"
        /\ procs[p].code = 200
        /\ procs[p].order = procs[q].order
        /\ \E r \in PaymentOf(payments, procs[q].order) : r.status = "completed"
        /\ renewCalls[procs[q].order] = 0
        /\ subs = <<>>

====
